---------------------------- MODULE Spec2Model ----------------------------
(***************************************************************************)
(* A model of the emojid package (src/emojid.go): UUID-shaped identifiers  *)
(* of 32 emoji tokens laid out 8-4-4-4-12, generated by rejection sampling *)
(* from crypto/rand and parsed back with shape and membership validation.  *)
(*                                                                         *)
(* Go values are modelled as follows.                                      *)
(*   rune      an integer (int32 code point)                               *)
(*   string    a sequence of bytes (0..255), as in Go                      *)
(*   [32]rune  a sequence of 32 runes                                      *)
(*   []rune    alphabets: a record [len, cyc], the slice of length len     *)
(*             whose entry idx (0-based) is cyc[(idx % Len(cyc)) + 1]; an  *)
(*             alphabet with len = Len(cyc) is the plain slice cyc, and a  *)
(*             larger len repeats it (the code accepts duplicates).  This  *)
(*             lets alphabets of more than 65536 entries be inputs.        *)
(*   error     a string naming the sentinel, "nil" for no error            *)
(***************************************************************************)
EXTENDS Integers, Sequences, FiniteSets, TLC

\* ------------------------------------------------------------ constants

\* len(id.tokens): the array size of EmojiID.tokens.
NumTokens == 32

\* The delimiter byte '-' that String writes and ParseWithAlphabet splits on.
Dash == 45

\* utf8.RuneError, U+FFFD: what an invalid rune is written as and what an
\* invalid byte is decoded to.
RuneError == 65533

\* utf8.MaxRune, U+10FFFF.
MaxRune == 1114111

\* max in cryptoRandIndex: uint32(1<<16).
Max16 == 65536

\* want in ParseWithAlphabet: the emoji counts of the five groups.
want == <<8, 4, 4, 4, 12>>

ErrNil == "nil"
ErrInvalidFormat == "ErrInvalidFormat"
ErrInvalidToken == "ErrInvalidToken"
ErrEntropyFailure == "ErrEntropyFailure"
ErrAlphabetTooSmall == "ErrAlphabetTooSmall"

\* EmojiID{}: the zero value, all tokens the zero rune.
ZeroID == [k \in 1..NumTokens |-> 0]

\* The 152 code points of DefaultAlphabet, in source order.
DefaultRunes ==
 << 128512, 128515, 128516, 128513, 128518, 128517, 128514, 129315,
    128522, 128519, 128578, 128579, 128521, 128524, 128525, 129392,
    128536, 128535, 128537, 128538, 128523, 128539, 128541, 128540,
    129322, 129320, 129488, 129299, 128526, 129395, 128548, 128545,
    129327, 128561, 128564, 129316, 128567, 129298, 129301, 129312,
    128520, 128123, 129302, 127875, 128054, 128049, 128045, 128057,
    128048, 129418, 128059, 128060, 128040, 128047, 129409, 128056,
    128053, 128020, 128039, 128038, 128036, 128025, 129425, 129408,
    128032, 128051, 129419, 128030, 127800, 127804, 127803, 127802,
    127822, 127818, 127819, 127817, 127815, 127827, 127826, 127821,
    129361, 129382, 129365, 127798, 127828, 127839, 127829, 127790,
    127843, 127849, 127850, 127851, 127871, 9749, 127866, 127863,
    9917, 127936, 127944, 9918, 127934, 127952, 127921, 127955,
    127928, 127929, 129345, 127931, 127911, 127918, 129513, 127922,
    128663, 128661, 128652, 128657, 128658, 128668, 9992, 128640,
    128752, 9973, 128690, 128756, 127968, 127970, 127981, 127984,
    127757, 127769, 11088, 9889, 128293, 128167, 127752, 10052,
    128142, 128274, 128273, 129504, 128161, 128230, 129522, 129520,
    128737, 9881, 129514, 129516, 128301, 128225, 128190, 128452 >>

\* ------------------------------------------------------------ alphabets

\* The slice of length n that repeats the entries cyc.
Slice(cyc, n) == [len |-> n, cyc |-> cyc]

\* The plain slice holding exactly the entries cyc.
Plain(cyc) == Slice(cyc, Len(cyc))

\* len(alphabet)
AlphabetLen(a) == a.len

\* alphabet[idx], 0-based
AlphabetAt(a, idx) == a.cyc[(idx % Len(a.cyc)) + 1]

\* The package-level DefaultAlphabet as declared.
DefaultAlphabetValue == Plain(DefaultRunes)

\* The keys of the map `allowed` built from `for _, r := range alphabet`.
Allowed(a) ==
    IF a.len >= Len(a.cyc)
    THEN {a.cyc[k] : k \in 1..Len(a.cyc)}
    ELSE {a.cyc[k] : k \in 1..a.len}

\* ------------------------------------------------------------ UTF-8

\* Whether r is a rune WriteRune encodes as itself: a Unicode scalar value.
ValidRune(r) == /\ r >= 0
                /\ r <= MaxRune
                /\ ~(r >= 55296 /\ r <= 57343)

\* strings.Builder.WriteRune(r): the UTF-8 bytes appended for r; an invalid
\* rune (negative, surrogate, above MaxRune) is written as RuneError.
EncodeValid(r) ==
    IF r < 128 THEN <<r>>
    ELSE IF r < 2048 THEN <<192 + (r \div 64), 128 + (r % 64)>>
    ELSE IF r < 65536
         THEN <<224 + (r \div 4096), 128 + ((r \div 64) % 64), 128 + (r % 64)>>
    ELSE <<240 + (r \div 262144), 128 + ((r \div 4096) % 64),
           128 + ((r \div 64) % 64), 128 + (r % 64)>>

WriteRune(r) == IF ValidRune(r) THEN EncodeValid(r) ELSE EncodeValid(RuneError)

\* The number of bytes the lead byte b announces (0: not a lead byte).
LeadSize(b) ==
    IF b < 128 THEN 1
    ELSE IF b >= 194 /\ b <= 223 THEN 2
    ELSE IF b >= 224 /\ b <= 239 THEN 3
    ELSE IF b >= 240 /\ b <= 244 THEN 4
    ELSE 0

\* The accepted range of the second byte after lead byte b (excludes
\* overlong forms, surrogates and values above MaxRune).
SecondLo(b) == IF b = 224 THEN 160 ELSE IF b = 240 THEN 144 ELSE 128
SecondHi(b) == IF b = 237 THEN 159 ELSE IF b = 244 THEN 143 ELSE 191

IsCont(b) == b >= 128 /\ b <= 191

\* The decoding of the first rune of byte string p (non-empty):
\* <<rune, width>>; an invalid or short encoding is <<RuneError, 1>>.
DecodeRune(p) ==
    LET b0 == p[1]
        sz == LeadSize(b0)
    IN  IF sz = 1 THEN <<b0, 1>>
        ELSE IF sz = 0 \/ Len(p) < sz THEN <<RuneError, 1>>
        ELSE IF p[2] < SecondLo(b0) \/ p[2] > SecondHi(b0) THEN <<RuneError, 1>>
        ELSE IF sz = 2 THEN <<(b0 - 192) * 64 + (p[2] - 128), 2>>
        ELSE IF ~IsCont(p[3]) THEN <<RuneError, 1>>
        ELSE IF sz = 3
             THEN <<(b0 - 224) * 4096 + (p[2] - 128) * 64 + (p[3] - 128), 3>>
        ELSE IF ~IsCont(p[4]) THEN <<RuneError, 1>>
        ELSE <<(b0 - 240) * 262144 + (p[2] - 128) * 4096
               + (p[3] - 128) * 64 + (p[4] - 128), 4>>

\* []rune(p): the runes of byte string p.
\* (A faulty variant: the bytes of p taken for its runes, as []byte(p).)
ToRunesMutantBytes(p) == p

RECURSIVE ToRunes(_)
ToRunes(p) ==
    IF p = <<>> THEN <<>>
    ELSE LET d == DecodeRune(p)
         IN  <<d[1]>> \o ToRunes(SubSeq(p, d[2] + 1, Len(p)))

\* ------------------------------------------------------------ String

\* writeRunes(from, to) of String: the bytes of tokens[from..to-1] (0-based).
RECURSIVE writeRunes(_, _, _)
writeRunes(tokens, from, to) ==
    IF from >= to THEN <<>>
    ELSE WriteRune(tokens[from + 1]) \o writeRunes(tokens, from + 1, to)

\* EmojiID.String(): 8-4-4-4-12 with a dash byte between the groups.
\* (A faulty variant: the dash before the last group is left out.)
StringMutantNoLastDash(tokens) ==
    writeRunes(tokens, 0, 8) \o <<Dash>> \o writeRunes(tokens, 8, 12)
    \o <<Dash>> \o writeRunes(tokens, 12, 16) \o <<Dash>>
    \o writeRunes(tokens, 16, 20) \o writeRunes(tokens, 20, 32)

String(tokens) ==
    writeRunes(tokens, 0, 8) \o <<Dash>> \o writeRunes(tokens, 8, 12)
    \o <<Dash>> \o writeRunes(tokens, 12, 16) \o <<Dash>>
    \o writeRunes(tokens, 16, 20) \o <<Dash>> \o writeRunes(tokens, 20, 32)

\* e.tokens == other.tokens
Equal(a, b) == a = b

\* e.tokens == z.tokens for the zero value z
IsZero(a) == a = ZeroID

\* ------------------------------------------------------------ Parse

\* strings.Index(s, "-"): the 1-based position of the first dash byte, 0
\* when there is none.
IndexDash(s) ==
    LET at == {k \in 1..Len(s) : s[k] = Dash}
    IN  IF at = {} THEN 0 ELSE CHOOSE k \in at : \A j \in at : k <= j

\* strings.Split(s, "-"): the byte strings between the dash bytes, cut off
\* one by one at the first dash of what is left.
RECURSIVE Split(_)
Split(s) ==
    LET m == IndexDash(s)
    IN  IF m = 0 THEN <<s>>
        ELSE <<SubSeq(s, 1, m - 1)>> \o Split(SubSeq(s, m + 1, Len(s)))

\* The loop over parts: "shape" when some part's rune count differs from
\* want[i], else the runes of all parts appended in order.
RECURSIVE CollectTokens(_, _)
CollectTokens(parts, i) ==
    IF i > Len(parts) THEN [ok |-> TRUE, tokens |-> <<>>]
    ELSE LET r == ToRunes(parts[i])
         IN  IF Len(r) # want[i] THEN [ok |-> FALSE, tokens |-> <<>>]
             ELSE LET rest == CollectTokens(parts, i + 1)
                  IN  IF rest.ok
                      THEN [ok |-> TRUE, tokens |-> r \o rest.tokens]
                      ELSE rest

\* The membership loop: the 0-based position of the first token that is not
\* a key of allowed, NumTokens when there is none.
RECURSIVE FirstBad(_, _, _)
FirstBad(tokens, allowed, i) ==
    IF i >= NumTokens THEN NumTokens
    ELSE IF tokens[i + 1] \notin allowed THEN i
    ELSE FirstBad(tokens, allowed, i + 1)

\* The value ParseWithAlphabet returns on an error.
Failure(e, u) == [id |-> ZeroID, err |-> e, unit |-> u]

\* The membership part of ParseWithAlphabet (lines 184-197) on the 32
\* collected tokens.
\* (A faulty variant: the last token outside the alphabet is reported.)
CheckMembershipMutantLast(tokens, a) ==
    LET bad == {k \in 0..NumTokens - 1 : tokens[k + 1] \notin Allowed(a)}
    IN  IF bad = {} THEN [id |-> tokens, err |-> ErrNil, unit |-> <<>>]
        ELSE LET b == CHOOSE k \in bad : \A j \in bad : j <= k
             IN  Failure(ErrInvalidToken, WriteRune(tokens[b + 1]))

CheckMembership(tokens, a) ==
    LET b == FirstBad(tokens, Allowed(a), 0)
    IN  IF b < NumTokens
        THEN Failure(ErrInvalidToken, WriteRune(tokens[b + 1]))
        ELSE [id |-> tokens, err |-> ErrNil, unit |-> <<>>]

\* ParseWithAlphabet(s, alphabet): [id, err, unit], unit being the text of
\* the offending token that an ErrInvalidToken error carries.
\* (A faulty variant: membership is checked before the shape.)
ParseMutantMembershipFirst(s, a) ==
    LET runes == ToRunes(s)
        bad == {k \in 1..Len(runes) :
                   runes[k] # Dash /\ runes[k] \notin Allowed(a)}
    IN  IF AlphabetLen(a) < 2 THEN Failure(ErrAlphabetTooSmall, <<>>)
        ELSE IF bad # {}
        THEN Failure(ErrInvalidToken,
                     WriteRune(runes[CHOOSE k \in bad : \A j \in bad : k <= j]))
        ELSE LET parts == Split(s)
             IN  IF Len(parts) # 5 THEN Failure(ErrInvalidFormat, <<>>)
                 ELSE LET c == CollectTokens(parts, 1)
                      IN  IF ~c.ok \/ Len(c.tokens) # 32
                          THEN Failure(ErrInvalidFormat, <<>>)
                          ELSE CheckMembership(c.tokens, a)

ParseWithAlphabet(s, a) ==
    IF AlphabetLen(a) < 2 THEN Failure(ErrAlphabetTooSmall, <<>>)
    ELSE LET parts == Split(s)
         IN  IF Len(parts) # 5 THEN Failure(ErrInvalidFormat, <<>>)
             ELSE LET c == CollectTokens(parts, 1)
                  IN  IF ~c.ok THEN Failure(ErrInvalidFormat, <<>>)
                      ELSE IF Len(c.tokens) # 32
                      THEN Failure(ErrInvalidFormat, <<>>)
                      ELSE CheckMembership(c.tokens, a)

\* EmojiID.Tokens(): make([]rune, 32) and copy(out, e.tokens[:]).
Tokens(tokens) == [k \in 1..NumTokens |-> tokens[k]]

\* ------------------------------------------------------------ sampling

\* uint32(n).  Every alphabet length of the model lies in 0..2^31-1 (the
\* integers TLC represents), where the conversion keeps the value.
U32(n) == n

\* limit := max - (max % uint32(n))
\* (A faulty variant: the limit of a 24-bit draw.)
LimitMutantWide(n) == (256 * Max16) - ((256 * Max16) % U32(n))

Limit(n) == Max16 - (Max16 % U32(n))

\* v := uint32(buf[0])<<8 | uint32(buf[1])
Combine(buf) == buf[1] * 256 + buf[2]

\* v < limit: the draw is accepted.
\* (A faulty variant: plain v % n, no draw is discarded.)
AcceptsMutantNoRejection(v, n) == TRUE

Accepts(v, n) == v < Limit(n)

\* int(v % uint32(n))
IndexOf(v, n) == v % U32(n)

\* The value NewWithAlphabet returns: [id, err].
Returned(id, e) == [id |-> id, err |-> e]

\* NewWithAlphabet's return on a failed cryptoRandIndex (line 92).
\* (A faulty variant: the partly filled identifier is returned.)
OnDrawErrorMutantPartial(id, e) == Returned(id, e)

OnDrawError(id, e) == Returned(ZeroID, e)

\* ------------------------------------------------------------ state

VARIABLES
    alphabet,   \* the caller's alphabet argument
    stream,     \* the bytes crypto/rand supplies: a cycle of 2-byte reads
    pos,        \* the next read of stream
    pc,         \* the position of the running call
    i,          \* NewWithAlphabet's loop counter
    id,         \* NewWithAlphabet's local id.tokens
    out,        \* what the call returned: [id, err]
    rejects,    \* how many reads were discarded so far (saturating)
    str,        \* a string: String()'s result, ParseWithAlphabet's argument
    back,       \* what ParseWithAlphabet returned: [id, err, unit]
    edits,      \* how many edits built the string str
    n,          \* cryptoRandIndex's argument
    v,          \* cryptoRandIndex's 16-bit draw
    res,        \* what cryptoRandIndex returned: [idx, err]
    writes,     \* how many writes went through returned slices
    mem,        \* arrays in memory, by location
    slices,     \* the location each returned slice points into
    copies,     \* what each returned slice should hold
    shared,     \* the alphabets goroutines share: DefaultAlphabet, a caller's
    procs       \* the goroutines of concurrent calls

genVars == <<alphabet, stream, pos, pc, i, id, out, rejects, str, back>>
parseVars == <<edits>>
idxVars == <<n, v, res>>
tokVars == <<mem, slices, copies, writes>>
concVars == <<shared, procs>>
vars == <<genVars, parseVars, idxVars, tokVars, concVars>>

Idle == "idle"
NoOut == Returned(ZeroID, "pending")
NoBack == [id |-> ZeroID, err |-> "pending", unit |-> <<>>]

\* ------------------------------------------------------------ bounds

\* The longest cycle of reads the random source repeats.
MaxPeriod == 2

\* The cap of the counter of discarded reads.
MaxRejects == 2

\* ------------------------------------------------------------ generation

\* The 2-byte reads the random source may supply: v = 0, 1, 65511, 65512,
\* 65535 big-endian.
DrawPairs == {<<0, 0>>, <<0, 1>>, <<255, 231>>, <<255, 232>>, <<255, 255>>}

RECURSIVE SeqsUpTo(_, _)
SeqsUpTo(S, k) ==
    IF k = 0 THEN {<<>>}
    ELSE LET shorter == SeqsUpTo(S, k - 1)
         IN  shorter \cup {Append(q, x) : q \in shorter, x \in S}

Streams == SeqsUpTo(DrawPairs, MaxPeriod) \ {<<>>}

\* The alphabets NewWithAlphabet is called with: too small, ASCII, with the
\* dash, multi-byte, with a surrogate, with the zero rune, the default one,
\* of exactly 65536 entries and of more.
GenAlphabets ==
    { Plain(<<>>), Plain(<<65>>), Plain(<<65, 66>>), Plain(<<65, Dash>>),
      Plain(<<233, 9749, 128512>>), Plain(<<65, 55296>>), Plain(<<0, 65>>),
      DefaultAlphabetValue, Slice(<<65, 66, 67>>, Max16),
      Slice(<<65, 66>>, Max16 + 1), Slice(<<65, 66, 67>>, 3 * Max16) }

NextPos == (pos % Len(stream)) + 1

InitGen ==
    /\ alphabet \in GenAlphabets
    /\ stream \in Streams
    /\ pos = 1
    /\ pc = "call"
    /\ i = 0
    /\ id = ZeroID
    /\ out = NoOut
    /\ rejects = 0
    /\ str = <<>>
    /\ back = NoBack
    /\ edits = 0
    /\ n = 0
    /\ v = 0
    /\ res = Idle
    /\ writes = 0
    /\ mem = Idle
    /\ slices = Idle
    /\ copies = Idle
    /\ shared = Idle
    /\ procs = Idle

others == <<parseVars, idxVars, tokVars, concVars>>

\* NewWithAlphabet, lines 81-85: the size check, then var id EmojiID.
TooSmall(a) == AlphabetLen(a) < 2

NewCall ==
    /\ pc = "call"
    /\ IF TooSmall(alphabet)
       THEN /\ out' = Returned(ZeroID, ErrAlphabetTooSmall)
            /\ pc' = "returned"
       ELSE /\ out' = out
            /\ pc' = "loop"
    /\ id' = ZeroID
    /\ i' = 0
    /\ UNCHANGED <<alphabet, stream, pos, rejects, str, back, others>>

\* Line 89-90 with i < 32: cryptoRandIndex is entered; its n <= 0 check
\* returns ErrAlphabetTooSmall, which NewWithAlphabet passes on (line 92).
NewEnterIndex ==
    /\ pc = "loop"
    /\ i < NumTokens
    /\ IF AlphabetLen(alphabet) <= 0
       THEN /\ out' = OnDrawError(id, ErrAlphabetTooSmall)
            /\ pc' = "returned"
       ELSE /\ out' = out
            /\ pc' = "read"
    /\ UNCHANGED <<alphabet, stream, pos, i, id, rejects, str, back, others>>

\* Line 227-228: rand.Read fails; cryptoRandIndex returns ErrEntropyFailure
\* and NewWithAlphabet returns EmojiID{} with it.
NewReadFail ==
    /\ pc = "read"
    /\ out' = OnDrawError(id, ErrEntropyFailure)
    /\ pc' = "returned"
    /\ UNCHANGED <<alphabet, stream, pos, i, id, rejects, str, back, others>>

\* Lines 230-233 with v >= limit: the draw is discarded and the loop reads
\* again.
NewReadReject ==
    /\ pc = "read"
    /\ ~Accepts(Combine(stream[pos]), AlphabetLen(alphabet))
    /\ pos' = NextPos
    /\ rejects' = IF rejects < MaxRejects THEN rejects + 1 ELSE rejects
    /\ UNCHANGED <<alphabet, stream, pc, i, id, out, str, back, others>>

\* i++ of the loop in NewWithAlphabet.
\* (A faulty variant: the counter is not advanced.)
NextIndexMutantStuck(k) == k

NextIndex(k) == k + 1

\* Lines 230-232 with v < limit, then line 94: the token is stored.
NewReadAccept ==
    /\ pc = "read"
    /\ Accepts(Combine(stream[pos]), AlphabetLen(alphabet))
    /\ LET idx == IndexOf(Combine(stream[pos]), AlphabetLen(alphabet))
       IN  id' = [id EXCEPT ![i + 1] = AlphabetAt(alphabet, idx)]
    /\ i' = NextIndex(i)
    /\ pos' = NextPos
    /\ pc' = "loop"
    /\ UNCHANGED <<alphabet, stream, out, rejects, str, back, others>>

\* Line 97: the loop is over, return id, nil.
NewReturn ==
    /\ pc = "loop"
    /\ i >= NumTokens
    /\ out' = Returned(id, ErrNil)
    /\ pc' = "returned"
    /\ UNCHANGED <<alphabet, stream, pos, i, id, rejects, str, back, others>>

\* id.String() on the identifier the call returned.
CallString ==
    /\ pc = "returned"
    /\ str' = String(out.id)
    /\ pc' = "formatted"
    /\ UNCHANGED <<alphabet, stream, pos, i, id, out, rejects, back, others>>

\* ParseWithAlphabet(id.String(), alphabet).
CallParseBack ==
    /\ pc = "formatted"
    /\ back' = ParseWithAlphabet(str, alphabet)
    /\ pc' = "parsed"
    /\ UNCHANGED <<alphabet, stream, pos, i, id, out, rejects, str, others>>

NextGen ==
    \/ NewCall
    \/ NewEnterIndex
    \/ NewReadFail
    \/ NewReadReject
    \/ NewReadAccept
    \/ NewReturn
    \/ CallString
    \/ CallParseBack

SpecGen == InitGen /\ [][NextGen]_vars

\* The goroutine running NewWithAlphabet keeps taking the step its code is
\* at; whether a read fails is the random source's choice.
FairSpecGen ==
    /\ SpecGen
    /\ WF_vars(NewCall)
    /\ WF_vars(NewEnterIndex)
    /\ WF_vars(NewReadReject)
    /\ WF_vars(NewReadAccept)
    /\ WF_vars(NewReturn)
\* ------------------------------------------------------------ claims on generation

\* Every entry of alphabet a is a Unicode scalar value other than the dash.
\* (Entries written as another text, or as the delimiter, do not survive
\* String.)
CleanAlphabet(a) ==
    \A r \in Allowed(a) : ValidRune(r) /\ r # Dash

\* NewWithAlphabet has returned an identifier, String has formatted it and
\* ParseWithAlphabet has parsed the text with the same alphabet.
RoundTripDone == pc = "parsed" /\ out.err = ErrNil

RoundTrips == back.err = ErrNil /\ Equal(back.id, out.id)

\* C1 as stated: for every alphabet of at least 2 entries, parsing the text
\* of a generated identifier with that alphabet succeeds and gives an equal
\* identifier.
C1_RoundTripAnyAlphabet == RoundTripDone => RoundTrips

\* C1, amended: for every alphabet of at least 2 entries, each a Unicode
\* scalar value other than '-', parsing the text of a generated identifier
\* with that alphabet succeeds and gives an equal identifier.
C1_RoundTrip == (RoundTripDone /\ CleanAlphabet(alphabet)) => RoundTrips

\* C1's case: a round trip of an identifier with differing multi-byte tokens.
C1_Witness ==
    /\ RoundTripDone
    /\ CleanAlphabet(alphabet)
    /\ \E k \in 1..NumTokens : out.id[k] > 127
    /\ \E k \in 1..NumTokens : out.id[k] # out.id[1]
    /\ RoundTrips

\* The text s is 32 units and 4 dashes: 5 dash-separated groups of 8, 4, 4,
\* 4 and 12 units, with no dash at either end.
FormatShape(s) ==
    LET parts == Split(s)
    IN  /\ Len(ToRunes(s)) = NumTokens + 4
        /\ Len(parts) = 5
        /\ \A g \in 1..5 : Len(parts) = 5 => Len(ToRunes(parts[g])) = want[g]
        /\ s # <<>>
        /\ s[1] # Dash
        /\ s[Len(s)] # Dash

Formatted == pc \in {"formatted", "parsed"}

\* C2 as stated: the text of every identifier (the zero one and generated
\* ones from any alphabet alike) has 32 units and 4 delimiters, in 5 groups
\* of 8, 4, 4, 4, 12 units.
C2_FormatShapeAnyTokens == Formatted => FormatShape(str)

\* C2, amended: the text of every identifier none of whose tokens is '-'
\* has 32 units and 4 delimiters, in 5 groups of 8, 4, 4, 4, 12 units.
C2_FormatShape ==
    (Formatted /\ \A k \in 1..NumTokens : out.id[k] # Dash) => FormatShape(str)

\* C2's case: the text of a generated identifier holding a token that is
\* not a Unicode scalar value.
C2_Witness ==
    /\ Formatted
    /\ out.err = ErrNil
    /\ \E k \in 1..NumTokens : ~ValidRune(out.id[k])
    /\ FormatShape(str)

\* C2's other case: the text of the zero identifier.
C2_ZeroFormatted == Formatted /\ IsZero(out.id) /\ FormatShape(str)

\* C5: when a read of the random source fails, NewWithAlphabet stops and
\* returns ErrEntropyFailure with the zero identifier, whatever it had
\* drawn.
C5_NoPartialIdentifier ==
    out.err = ErrEntropyFailure =>
        /\ IsZero(out.id)
        /\ pc \in {"returned", "formatted", "parsed"}
        /\ i < NumTokens

\* C5's case: the read fails after draws were discarded and tokens stored.
C5_Witness ==
    /\ out.err = ErrEntropyFailure
    /\ rejects > 0
    /\ i > 0
    /\ ~IsZero(id)

\* C10: with more than 65536 entries the limit is 0, no draw is accepted,
\* no token is stored and the call does not return, unless a read fails:
\* then it returns ErrEntropyFailure.
C10_OversizedAlphabet ==
    AlphabetLen(alphabet) > Max16 =>
        /\ Limit(AlphabetLen(alphabet)) = 0
        /\ \A w \in DrawPairs : ~Accepts(Combine(w), AlphabetLen(alphabet))
        /\ i = 0
        /\ id = ZeroID
        /\ out.err \in {"pending", ErrEntropyFailure}
        /\ out.id = ZeroID

\* C10's case: an oversized alphabet, draws discarded, then a failed read.
C10_Witness ==
    /\ AlphabetLen(alphabet) > Max16
    /\ rejects = MaxRejects
    /\ out.err = ErrEntropyFailure

\* The next read of the random source gives a value the loop discards.
Rejecting ==
    /\ pc = "read"
    /\ ~Accepts(Combine(stream[pos]), AlphabetLen(alphabet))

HasReturned == out.err # "pending"

\* C9: for an alphabet of 2 to 65536 entries, if the random source does not
\* give discarded values forever, NewWithAlphabet returns; it returns an
\* identifier only after 32 accepted draws, all entries of the alphabet, and
\* ErrEntropyFailure otherwise.
C9_Termination ==
    /\ [](HasReturned /\ AlphabetLen(alphabet) >= 2 =>
            \/ /\ out.err = ErrNil
               /\ i = NumTokens
               /\ \A k \in 1..NumTokens : out.id[k] \in Allowed(alphabet)
            \/ out.err = ErrEntropyFailure)
    /\ (AlphabetLen(alphabet) >= 2 /\ AlphabetLen(alphabet) <= Max16
        /\ []<>~Rejecting) => <>HasReturned

\* C9's case: the call returns an identifier after discarded draws.
C9_Witness ==
    /\ out.err = ErrNil
    /\ i = NumTokens
    /\ rejects > 0

\* ------------------------------------------------------------ parsing

\* How many single-byte edits build an argument string from a base text.
MaxEdits == 1

\* The identifier that repeats the runes of pattern.
Repeat(pattern) ==
    [k \in 1..NumTokens |-> pattern[((k - 1) % Len(pattern)) + 1]]

\* The texts edits start from: the texts of identifiers over 'A', U+00E9
\* and 'Z', the empty string, "abc" and "aa-bb-cc-dd-ee".
BasePatterns == {<<65>>, <<65, 233>>, <<65, 90>>, <<233, 65, 90>>}

BaseStrings ==
    {String(Repeat(q)) : q \in BasePatterns}
    \cup { <<>>, <<97, 98, 99>>,
           <<97, 97, 45, 98, 98, 45, 99, 99, 45, 100, 100, 45, 101, 101>> }

\* The bytes an edit writes: '-', 'Z', the lead byte 0xC3 and the
\* continuation byte 0xA9.
EditBytes == {Dash, 90, 195, 169}

\* The alphabets ParseWithAlphabet is called with: too small, of 'A' and
\* U+00E9, and the same with U+FFFD.
ParseAlphabets ==
    { Plain(<<65>>), Plain(<<65, 233>>), Plain(<<65, 233, RuneError>>) }

InitParse ==
    /\ alphabet \in ParseAlphabets
    /\ str \in BaseStrings
    /\ edits = 0
    /\ pc = "edit"
    /\ back = NoBack
    /\ stream = <<>>
    /\ pos = 1
    /\ i = 0
    /\ id = ZeroID
    /\ out = NoOut
    /\ rejects = 0
    /\ n = 0
    /\ v = 0
    /\ res = Idle
    /\ writes = 0
    /\ mem = Idle
    /\ slices = Idle
    /\ copies = Idle
    /\ shared = Idle
    /\ procs = Idle

parseFrame ==
    <<alphabet, stream, pos, i, id, out, rejects, idxVars, tokVars, concVars>>

\* The caller overwrites one byte of the argument.
EditSet ==
    /\ pc = "edit"
    /\ edits < MaxEdits
    /\ \E k \in 1..Len(str), b \in EditBytes :
          /\ str[k] # b
          /\ str' = [str EXCEPT ![k] = b]
    /\ edits' = edits + 1
    /\ UNCHANGED <<pc, back, parseFrame>>

\* The caller inserts one byte into the argument.
EditInsert ==
    /\ pc = "edit"
    /\ edits < MaxEdits
    /\ \E k \in 0..Len(str), b \in EditBytes :
          str' = SubSeq(str, 1, k) \o <<b>> \o SubSeq(str, k + 1, Len(str))
    /\ edits' = edits + 1
    /\ UNCHANGED <<pc, back, parseFrame>>

\* The caller removes one byte of the argument.
EditDelete ==
    /\ pc = "edit"
    /\ edits < MaxEdits
    /\ \E k \in 1..Len(str) :
          str' = SubSeq(str, 1, k - 1) \o SubSeq(str, k + 1, Len(str))
    /\ edits' = edits + 1
    /\ UNCHANGED <<pc, back, parseFrame>>

\* ParseWithAlphabet(str, alphabet).
CallParse ==
    /\ pc = "edit"
    /\ back' = ParseWithAlphabet(str, alphabet)
    /\ pc' = "parsed"
    /\ UNCHANGED <<str, edits, parseFrame>>

NextParse ==
    \/ EditSet
    \/ EditInsert
    \/ EditDelete
    \/ CallParse

SpecParse == InitParse /\ [][NextParse]_vars

\* ------------------------------------------------------------ claims on parsing

\* The text s splits on '-' into exactly 5 parts of 8, 4, 4, 4, 12 units.
Shaped(s) ==
    LET parts == Split(s)
    IN  /\ Len(parts) = 5
        /\ \A g \in 1..5 : Len(parts) = 5 => Len(ToRunes(parts[g])) = want[g]

\* The units of the text s, its dashes left out, in order.
Units(s) == SelectSeq(ToRunes(s), LAMBDA r : r # Dash)

\* The 0-based positions of the units of s that are no entry of alphabet a.
Outside(s, a) ==
    {k \in 0..Len(Units(s)) - 1 : Units(s)[k + 1] \notin Allowed(a)}

Parsed == pc = "parsed" /\ edits <= MaxEdits

\* C4: ParseWithAlphabet checks the alphabet's size, then the shape, then
\* membership: an alphabet of fewer than 2 entries gives ErrAlphabetTooSmall
\* whatever the text; otherwise a text not of the 8-4-4-4-12 shape gives
\* ErrInvalidFormat even when it holds units outside the alphabet;
\* ErrInvalidToken is returned only for a text of that shape; and a failing
\* call returns the zero identifier with one of these errors.
C4_ErrorPrecedence ==
    Parsed =>
        /\ AlphabetLen(alphabet) < 2 => back.err = ErrAlphabetTooSmall
        /\ (AlphabetLen(alphabet) >= 2 /\ ~Shaped(str))
              => back.err = ErrInvalidFormat
        /\ back.err = ErrInvalidToken
              => (AlphabetLen(alphabet) >= 2 /\ Shaped(str))
        /\ back.err \in {ErrNil, ErrAlphabetTooSmall, ErrInvalidFormat,
                         ErrInvalidToken}
        /\ back.err # ErrNil => IsZero(back.id)

\* C4's case: a text of the wrong shape that also holds a unit outside the
\* alphabet, parsed with an alphabet of at least 2 entries.
C4_Witness ==
    /\ Parsed
    /\ AlphabetLen(alphabet) >= 2
    /\ ~Shaped(str)
    /\ Len(Units(str)) = NumTokens
    /\ Outside(str, alphabet) # {}
    /\ back.err = ErrInvalidFormat

\* C4's other case: a too small alphabet with a well-shaped text.
C4_TooSmallShaped ==
    Parsed /\ AlphabetLen(alphabet) < 2 /\ Shaped(str)
    /\ back.err = ErrAlphabetTooSmall

\* C6: for a text of the 8-4-4-4-12 shape and an alphabet of at least 2
\* entries, ParseWithAlphabet fails with ErrInvalidToken exactly when some
\* unit is no entry of the alphabet, the error carries the first such unit,
\* and otherwise the call succeeds with the 32 units as tokens.
C6_InvalidToken ==
    (Parsed /\ AlphabetLen(alphabet) >= 2 /\ Shaped(str)) =>
        LET bad == Outside(str, alphabet)
        IN  IF bad = {}
            THEN back.err = ErrNil /\ back.id = Units(str)
            ELSE /\ back.err = ErrInvalidToken
                 /\ \E k \in bad :
                       /\ \A j \in bad : k <= j
                       /\ back.unit = WriteRune(Units(str)[k + 1])

\* C6's case: a well-shaped text with two different units outside the
\* alphabet, the first of them not at the start.
C6_Witness ==
    /\ Parsed
    /\ AlphabetLen(alphabet) >= 2
    /\ Shaped(str)
    /\ 0 \notin Outside(str, alphabet)
    /\ \E j, k \in Outside(str, alphabet) :
          Units(str)[j + 1] # Units(str)[k + 1]
    /\ back.err = ErrInvalidToken

\* C6's other case: a well-shaped edited text all of whose units are
\* entries, one of them U+FFFD read from an invalid byte.
C6_AllEntries ==
    /\ Parsed
    /\ Shaped(str)
    /\ edits > 0
    /\ \E k \in 1..NumTokens : back.id[k] = RuneError
    /\ back.err = ErrNil

\* ------------------------------------------------------------ cryptoRandIndex

\* The sizes cryptoRandIndex is called with: none, divisors of 65536 and
\* others, the default alphabet's, and the largest two a 16-bit draw covers.
IndexSizes == {0, 2, 3, 7, 152, 256, 65535, 65536}

InitIndex ==
    /\ n \in IndexSizes
    /\ v = 0
    /\ res = [idx |-> 0, err |-> "pending"]
    /\ pc = "call"
    /\ alphabet = Idle
    /\ stream = <<>>
    /\ pos = 1
    /\ i = 0
    /\ id = ZeroID
    /\ out = NoOut
    /\ rejects = 0
    /\ str = <<>>
    /\ back = NoBack
    /\ edits = 0
    /\ writes = 0
    /\ mem = Idle
    /\ slices = Idle
    /\ copies = Idle
    /\ shared = Idle
    /\ procs = Idle

indexFrame ==
    <<alphabet, stream, pos, i, id, out, rejects, str, back, parseVars,
      tokVars, concVars>>

\* Lines 216-224: the n <= 0 check, then max and limit.
IndexCall ==
    /\ pc = "call"
    /\ IF n <= 0
       THEN /\ res' = [idx |-> 0, err |-> ErrAlphabetTooSmall]
            /\ pc' = "returned"
       ELSE /\ res' = res
            /\ pc' = "read"
    /\ UNCHANGED <<n, v, indexFrame>>

\* Lines 227-228: rand.Read fails.
IndexReadFail ==
    /\ pc = "read"
    /\ res' = [idx |-> 0, err |-> ErrEntropyFailure]
    /\ pc' = "returned"
    /\ UNCHANGED <<n, v, indexFrame>>

\* Lines 227-233 with v >= limit: any two bytes are read, the draw is
\* discarded and the loop reads again.
IndexReadReject ==
    /\ pc = "read"
    /\ \E b0 \in 0..255, b1 \in 0..255 :
          /\ ~Accepts(Combine(<<b0, b1>>), n)
          /\ v' = Combine(<<b0, b1>>)
    /\ UNCHANGED <<n, res, pc, indexFrame>>

\* Lines 227-232 with v < limit: any two bytes are read and v % n returned.
IndexReadAccept ==
    /\ pc = "read"
    /\ \E b0 \in 0..255, b1 \in 0..255 :
          /\ Accepts(Combine(<<b0, b1>>), n)
          /\ v' = Combine(<<b0, b1>>)
          /\ res' = [idx |-> IndexOf(Combine(<<b0, b1>>), n), err |-> ErrNil]
    /\ pc' = "returned"
    /\ UNCHANGED <<n, indexFrame>>

NextIndexCall ==
    \/ IndexCall
    \/ IndexReadFail
    \/ IndexReadReject
    \/ IndexReadAccept

SpecIndex == InitIndex /\ [][NextIndexCall]_vars

\* How many of the 65536 values of a draw cryptoRandIndex(size) accepts and
\* returns as index idx.
Preimages(idx, size) ==
    Cardinality({w \in 0..Max16 - 1 : Accepts(w, size) /\ IndexOf(w, size) = idx})

\* The returned indices whose preimages are counted: all of them for the
\* sizes up to 256, the first and the last for the larger sizes; each once,
\* at the draw v = idx.
Counted == /\ pc = "returned"
           /\ res.err = ErrNil
           /\ v = res.idx
           /\ (n <= 256 \/ res.idx = 0 \/ res.idx = n - 1)

\* C3: for a size n of 2 to 65536, a returned index is v mod n of a draw
\* v < limit, so lies in 0..n-1; a draw v >= limit is discarded, never
\* returned; and every index is returned for the same number of the 65536
\* values of a draw.
C3_UnbiasedSampling ==
    (n >= 2 /\ n <= Max16) =>
        /\ (pc = "returned" /\ res.err = ErrNil) =>
              /\ res.idx \in 0..n - 1
              /\ v < Max16 - (Max16 % n)
              /\ res.idx = v % n
        /\ v >= Max16 - (Max16 % n) => res.err # ErrNil
        /\ Counted =>
              /\ Preimages(res.idx, n) = Preimages(0, n)
              /\ Preimages(res.idx, n) > 0

\* C3's case: for a size that does not divide 65536, the largest accepted
\* draw returns the last index.
C3_Witness ==
    /\ pc = "returned"
    /\ n >= 2
    /\ Max16 % n # 0
    /\ v = Max16 - (Max16 % n) - 1
    /\ res.idx = n - 1
    /\ res.err = ErrNil

\* C3's other case: a draw at the limit is discarded and the loop reads on.
C3_Discarded ==
    /\ pc = "read"
    /\ n = 152
    /\ v = Max16 - (Max16 % n)
    /\ res.err = "pending"

\* ------------------------------------------------------------ Tokens

\* How many writes the caller makes through the slices Tokens returned.
MaxWrites == 2

\* The identifiers Tokens is called on.
TokenIds == {ZeroID, Repeat(<<65, 128512>>)}

\* The runes the caller writes into a returned slice.
WriteRunes == {0, 90}

\* The array of the identifier, and the array make() allocates in the
\* first and in the second call of Tokens.
Locations == {"e", "out1", "out2"}
Fresh(c) == IF c = 1 THEN "out1" ELSE "out2"

\* e.Tokens() with the arrays m in memory: out := make([]rune, 32) is the
\* array at location fresh, copy(out, e.tokens[:]) fills it, and the slice
\* returned points into it.
\* (A faulty variant: a slice of the identifier's own array is returned.)
TokensCallMutantAlias(m, fresh) == [mem |-> m, slice |-> "e"]

TokensCall(m, fresh) ==
    [mem |-> [m EXCEPT ![fresh] = Tokens(m["e"])], slice |-> fresh]

InitTokens ==
    /\ \E t \in TokenIds :
          /\ mem = [l \in Locations |-> IF l = "e" THEN t ELSE <<>>]
          /\ copies = [l \in Locations |-> IF l = "e" THEN t ELSE <<>>]
    /\ slices = [c \in {1, 2} |-> "none"]
    /\ writes = 0
    /\ pc = "tokens"
    /\ alphabet = Idle
    /\ stream = <<>>
    /\ pos = 1
    /\ i = 0
    /\ id = ZeroID
    /\ out = NoOut
    /\ rejects = 0
    /\ str = <<>>
    /\ back = NoBack
    /\ edits = 0
    /\ n = 0
    /\ v = 0
    /\ res = Idle
    /\ shared = Idle
    /\ procs = Idle

tokensFrame ==
    <<alphabet, stream, pos, pc, i, id, out, rejects, str, back, parseVars,
      idxVars, concVars>>

\* The c-th call of e.Tokens().
CallTokens(c) ==
    /\ slices[c] = "none"
    /\ c = 2 => slices[1] # "none"
    /\ LET r == TokensCall(mem, Fresh(c))
       IN  /\ mem' = r.mem
           /\ slices' = [slices EXCEPT ![c] = r.slice]
    /\ copies' = [copies EXCEPT ![Fresh(c)] = copies["e"]]
    /\ UNCHANGED <<writes, tokensFrame>>

\* The caller writes rune r at index k of the slice the c-th call returned.
WriteSlice(c, k, r) ==
    /\ slices[c] # "none"
    /\ writes < MaxWrites
    /\ mem' = [mem EXCEPT ![slices[c]][k] = r]
    /\ copies' = [copies EXCEPT ![Fresh(c)][k] = r]
    /\ writes' = writes + 1
    /\ UNCHANGED <<slices, tokensFrame>>

NextTokens ==
    \/ \E c \in {1, 2} : CallTokens(c)
    \/ \E c \in {1, 2}, k \in 1..NumTokens, r \in WriteRunes :
          WriteSlice(c, k, r)

SpecTokens == InitTokens /\ [][NextTokens]_vars

\* C8: Tokens returns a sequence of 32 runes equal to the identifier's
\* tokens; whatever is written into returned sequences, the identifier
\* keeps its tokens, so Tokens, String, Equal and IsZero give what they gave
\* before, and each returned sequence holds what was written into it alone.
C8_DefensiveCopy ==
    /\ mem["e"] = copies["e"]
    /\ Tokens(mem["e"]) = Tokens(copies["e"])
    /\ String(mem["e"]) = String(copies["e"])
    /\ Equal(mem["e"], copies["e"])
    /\ IsZero(mem["e"]) = IsZero(copies["e"])
    /\ \A c \in {1, 2} :
          slices[c] # "none" =>
              /\ slices[c] # "e"
              /\ Len(mem[slices[c]]) = NumTokens
              /\ mem[slices[c]] = copies[Fresh(c)]
              /\ writes = 0 => mem[slices[c]] = mem["e"]
    /\ (slices[1] # "none" /\ slices[2] # "none") => slices[1] # slices[2]

\* C8's case: both returned sequences were written, at the same index with
\* different runes, and differ from the identifier's tokens.
C8_Witness ==
    /\ writes = MaxWrites
    /\ slices[1] # "none"
    /\ slices[2] # "none"
    /\ \E k \in 1..NumTokens :
          /\ mem[slices[1]][k] # mem["e"][k]
          /\ mem[slices[2]][k] # mem["e"][k]
          /\ mem[slices[1]][k] # mem[slices[2]][k]

\* ------------------------------------------------------------ concurrent calls

\* How many goroutines call the package at once.
NumProcs == 2

Procs == 1..NumProcs

GenOps == {"New", "NewWithAlphabet"}
ParseOps == {"Parse", "ParseWithAlphabet", "Validate"}
ValueOps == {"String", "Equal", "IsZero", "Tokens"}

\* The alphabet a call reads: New, Parse and Validate pass the package
\* variable DefaultAlphabet, the WithAlphabet calls the caller's slice.
RefOf(op) ==
    IF op \in {"New", "Parse", "Validate"} THEN "default" ELSE "caller"

\* The reads the random source gives one call: a cycle of 2-byte reads, or
\* a discarded read, an accepted one and a read that fails ("err").
ConcStreams ==
    { << <<0, 1>>, <<0, 0>> >>,
      << <<255, 255>>, <<0, 1>>, "err" >> }

\* The caller's alphabet the WithAlphabet calls share.
CallerAlphabets == { Plain(<<65, 233, 128512>>) }

\* The text parsed: all its units are entries of the default alphabet, and
\* every other one is no entry of the caller's.
ConcStrings == { String(Repeat(<<128512, 9749>>)) }

\* The identifier String, Equal, IsZero and Tokens are called on; Equal
\* compares it with an equal identifier.
ConcIds == { Repeat(<<65, 233>>) }

\* A goroutine about to make the call op with the given arguments.
NewProc(op, st, s, e) ==
    [ op |-> op, stream |-> st, s |-> s, e |-> e, pc |-> "call", pos |-> 1,
      len |-> 0, i |-> 0, id |-> ZeroID, tokens |-> <<>>, allowed |-> {},
      result |-> "pending" ]

ProcConfigs ==
    {NewProc(op, st, <<>>, ZeroID) : op \in GenOps, st \in ConcStreams}
    \cup {NewProc(op, <<>>, s, ZeroID) : op \in ParseOps, s \in ConcStrings}
    \cup {NewProc(op, <<>>, <<>>, e) : op \in ValueOps, e \in ConcIds}

InitConc ==
    /\ alphabet \in CallerAlphabets
    /\ shared = [default |-> DefaultAlphabetValue, caller |-> alphabet]
    /\ procs \in [Procs -> ProcConfigs]
    /\ pc = "concurrent"
    /\ stream = <<>>
    /\ pos = 1
    /\ i = 0
    /\ id = ZeroID
    /\ out = NoOut
    /\ rejects = 0
    /\ str = <<>>
    /\ back = NoBack
    /\ edits = 0
    /\ n = 0
    /\ v = 0
    /\ res = Idle
    /\ writes = 0
    /\ mem = Idle
    /\ slices = Idle
    /\ copies = Idle

concFrame == <<genVars, parseVars, idxVars, tokVars>>

\* What a step of a call leaves in the goroutine and in shared memory.
Step(p, q, sh) ==
    /\ procs' = [procs EXCEPT ![p] = q]
    /\ shared' = sh
    /\ UNCHANGED concFrame

Done(q, r) == [q EXCEPT !.pc = "done", !.result = r]

\* New / NewWithAlphabet, lines 51 and 81-85: the slice header is copied
\* into the call and its length checked.
ProcNewCall(p) ==
    LET q == procs[p]
        len == AlphabetLen(shared[RefOf(q.op)])
    IN  /\ q.op \in GenOps
        /\ q.pc = "call"
        /\ IF len < 2
           THEN Step(p, Done(q, Returned(ZeroID, ErrAlphabetTooSmall)), shared)
           ELSE Step(p, [q EXCEPT !.pc = "read", !.len = len], shared)

\* One read of the random source in cryptoRandIndex and what follows it up
\* to the next read: the draw is discarded; or the read fails and the call
\* returns; or alphabet[idx] is read from the shared array and stored, and
\* after the 32nd token the call returns.
DrawStep(q, sh) ==
    LET w == q.stream[q.pos]
        next == (q.pos % Len(q.stream)) + 1
    IN  IF w = "err"
        THEN [proc |-> Done(q, OnDrawError(q.id, ErrEntropyFailure)),
              shared |-> sh]
        ELSE IF ~Accepts(Combine(w), q.len)
        THEN [proc |-> [q EXCEPT !.pos = next], shared |-> sh]
        ELSE LET idx == IndexOf(Combine(w), q.len)
                 tok == AlphabetAt(sh[RefOf(q.op)], idx)
                 ident == [q.id EXCEPT ![q.i + 1] = tok]
                 moved == [q EXCEPT !.pos = next, !.i = NextIndex(q.i),
                                    !.id = ident]
             IN  IF NextIndex(q.i) >= NumTokens
                 THEN [proc |-> Done(moved, Returned(ident, ErrNil)),
                       shared |-> sh]
                 ELSE [proc |-> moved, shared |-> sh]

ProcDraw(p) ==
    /\ procs[p].op \in GenOps
    /\ procs[p].pc = "read"
    /\ LET r == DrawStep(procs[p], shared)
       IN  Step(p, r.proc, r.shared)

\* What Validate makes of Parse's result.
ParseResult(op, r) == IF op = "Validate" THEN r.err = ErrNil ELSE r

\* Parse / Validate / ParseWithAlphabet, lines 138 and 153-182: the slice
\* header is copied, the length checked, the text split and its shape
\* checked.
ProcParseCall(p) ==
    LET q == procs[p]
        len == AlphabetLen(shared[RefOf(q.op)])
        parts == Split(q.s)
        c == IF Len(parts) = 5 THEN CollectTokens(parts, 1)
             ELSE [ok |-> FALSE, tokens |-> <<>>]
    IN  /\ q.op \in ParseOps
        /\ q.pc = "call"
        /\ IF len < 2
           THEN Step(p, Done(q, ParseResult(q.op,
                                   Failure(ErrAlphabetTooSmall, <<>>))), shared)
           ELSE IF ~c.ok \/ Len(c.tokens) # 32
           THEN Step(p, Done(q, ParseResult(q.op,
                                   Failure(ErrInvalidFormat, <<>>))), shared)
           ELSE Step(p, [q EXCEPT !.pc = "build", !.len = len,
                                  !.tokens = c.tokens], shared)

\* Lines 184-187: the map allowed is filled from the entries read from the
\* shared array, which is only read.
\* (A faulty variant: the entries are sorted in place first.)
BuildAllowedMutantSorts(a) ==
    LET all == {a.cyc[k] : k \in 1..Len(a.cyc)}
    IN  [allowed |-> Allowed(a),
         alphabet |-> [a EXCEPT !.cyc =
             [k \in 1..Len(a.cyc) |->
                 CHOOSE x \in all : Cardinality({y \in all : y < x}) = k - 1]]]

BuildAllowed(a) == [allowed |-> Allowed(a), alphabet |-> a]

ProcParseBuild(p) ==
    LET q == procs[p]
        b == BuildAllowed(shared[RefOf(q.op)])
    IN  /\ q.op \in ParseOps
        /\ q.pc = "build"
        /\ Step(p, [q EXCEPT !.pc = "check", !.allowed = b.allowed],
                [shared EXCEPT ![RefOf(q.op)] = b.alphabet])

\* Lines 189-197: the membership loop over the map, and the return.
ProcParseCheck(p) ==
    LET q == procs[p]
        b == FirstBad(q.tokens, q.allowed, 0)
        r == IF b < NumTokens
             THEN Failure(ErrInvalidToken, WriteRune(q.tokens[b + 1]))
             ELSE [id |-> q.tokens, err |-> ErrNil, unit |-> <<>>]
    IN  /\ q.op \in ParseOps
        /\ q.pc = "check"
        /\ Step(p, Done(q, ParseResult(q.op, r)), shared)

\* String, Equal, IsZero, Tokens: methods of a value receiver.
ValueResult(op, e) ==
    IF op = "String" THEN String(e)
    ELSE IF op = "Equal" THEN Equal(e, Repeat(<<65, 233>>))
    ELSE IF op = "IsZero" THEN IsZero(e)
    ELSE Tokens(e)

ProcValue(p) ==
    /\ procs[p].op \in ValueOps
    /\ procs[p].pc = "call"
    /\ Step(p, Done(procs[p], ValueResult(procs[p].op, procs[p].e)), shared)

NextConc ==
    \/ \E p \in Procs : ProcNewCall(p)
    \/ \E p \in Procs : ProcDraw(p)
    \/ \E p \in Procs : ProcParseCall(p)
    \/ \E p \in Procs : ProcParseBuild(p)
    \/ \E p \in Procs : ProcParseCheck(p)
    \/ \E p \in Procs : ProcValue(p)

SpecConc == InitConc /\ [][NextConc]_vars

\* NewWithAlphabet(a) run alone on the reads st, from read number at with k
\* tokens stored in ident.
RECURSIVE DrawAlone(_, _, _, _, _)
DrawAlone(a, st, at, k, ident) ==
    IF k >= NumTokens THEN Returned(ident, ErrNil)
    ELSE IF st[at] = "err" THEN Returned(ZeroID, ErrEntropyFailure)
    ELSE IF Combine(st[at]) >= Max16 - (Max16 % AlphabetLen(a))
    THEN DrawAlone(a, st, (at % Len(st)) + 1, k, ident)
    ELSE DrawAlone(a, st, (at % Len(st)) + 1, k + 1,
                   [ident EXCEPT ![k + 1] =
                       AlphabetAt(a, Combine(st[at]) % AlphabetLen(a))])

\* The result of the call of goroutine q run alone, with the default
\* alphabet as declared and the caller's alphabet a as passed.
Alone(q, a) ==
    LET use == IF RefOf(q.op) = "default" THEN DefaultAlphabetValue ELSE a
    IN  IF q.op \in GenOps
        THEN IF AlphabetLen(use) < 2
             THEN Returned(ZeroID, ErrAlphabetTooSmall)
             ELSE DrawAlone(use, q.stream, 1, 0, ZeroID)
        ELSE IF q.op \in ParseOps
        THEN ParseResult(q.op, ParseWithAlphabet(q.s, use))
        ELSE ValueResult(q.op, q.e)

\* C7: under every interleaving of the steps of concurrent calls, no call
\* writes DefaultAlphabet or the caller's alphabet, and every call returns
\* what it returns when run alone with the same arguments and random bytes.
C7_ConcurrentSafety ==
    /\ shared.default = DefaultAlphabetValue
    /\ shared.caller = alphabet
    /\ \A p \in Procs :
          procs[p].pc = "done" => procs[p].result = Alone(procs[p], alphabet)

\* C7's case: a New and a Parse, both on the default alphabet, have
\* returned an identifier each.
C7_Witness ==
    \E p, r \in Procs :
        /\ procs[p].op = "New"
        /\ procs[p].pc = "done"
        /\ procs[p].result.err = ErrNil
        /\ procs[p].result.id[1] # procs[p].result.id[2]
        /\ procs[r].op = "Parse"
        /\ procs[r].pc = "done"
        /\ procs[r].result.err = ErrNil
=============================================================================
